---------------------------- MODULE Spec2Model ----------------------------
(***************************************************************************)
(* CodeGuard: the evidence-gathering and scoring pipeline.                 *)
(*                                                                         *)
(*   routes (POST /analyze)      src/routes/reports.js  221-290            *)
(*   analyzeFile                 src/routes/reports.js  332-443            *)
(*   getRiskLevel                src/routes/reports.js  493-499            *)
(*   SearchService               src/services/searchService.js             *)
(*   GitHubService.searchCode    src/services/githubService.js 189-214     *)
(*                                                                         *)
(* Texts are sequences of one-character strings, so that the regular       *)
(* expressions, the normalisation and the bigram comparison of the code    *)
(* are computed character by character.  Numbers that the code computes    *)
(* in floating point (similarities, scores) are exact rationals here.      *)
(***************************************************************************)
EXTENDS Integers, Sequences, FiniteSets

(***************************************************************************)
(* Characters and character classes of the JavaScript regular expressions. *)
(***************************************************************************)

\* The upper-case and the lower-case letters, position by position.
UpperCase ==
    << "A", "B", "C", "D", "E", "F", "G", "H", "I", "J", "K", "L", "M",
       "N", "O", "P", "Q", "R", "S", "T", "U", "V", "W", "X", "Y", "Z" >>

LowerCase ==
    << "a", "b", "c", "d", "e", "f", "g", "h", "i", "j", "k", "l", "m",
       "n", "o", "p", "q", "r", "s", "t", "u", "v", "w", "x", "y", "z" >>

Digits == { "0", "1", "2", "3", "4", "5", "6", "7", "8", "9" }

Range(s) == { s[i] : i \in DOMAIN s }

\* \s of a JavaScript regular expression (the characters the texts here use).
IsSpace(c) == c \in { " ", "\n", "\t", "\r" }

\* \w of a JavaScript regular expression: [A-Za-z0-9_].
IsWord(c) == c \in Range(UpperCase) \cup Range(LowerCase) \cup Digits \cup { "_" }

\* String.prototype.toLowerCase, one character.
toLowerCase(c) ==
    IF c \in Range(UpperCase)
    THEN LowerCase[CHOOSE i \in DOMAIN UpperCase : UpperCase[i] = c]
    ELSE c

\* s.startsWith(lit, i - 1): the literal lit stands in s at position i.
StartsWithAt(s, i, lit) ==
    /\ i >= 1
    /\ i + Len(lit) - 1 <= Len(s)
    /\ SubSeq(s, i, i + Len(lit) - 1) = lit

\* The first position >= i of s that holds no whitespace (Len(s) + 1 if none):
\* where a greedy \s* that starts at i stops.
RECURSIVE SkipSpace(_, _)
SkipSpace(s, i) ==
    IF i <= Len(s) /\ IsSpace(s[i]) THEN SkipSpace(s, i + 1) ELSE i

\* Where a greedy \w* that starts at i stops.
RECURSIVE SkipWord(_, _)
SkipWord(s, i) ==
    IF i <= Len(s) /\ IsWord(s[i]) THEN SkipWord(s, i + 1) ELSE i

\* The first position >= i of s that holds the character c (Len(s) + 1 if none).
RECURSIVE IndexOf(_, _, _)
IndexOf(s, c, i) ==
    IF i <= Len(s) /\ s[i] # c THEN IndexOf(s, c, i + 1) ELSE i

\* String.prototype.trim.
RECURSIVE TrimEnd(_)
TrimEnd(s) ==
    IF Len(s) > 0 /\ IsSpace(s[Len(s)]) THEN TrimEnd(SubSeq(s, 1, Len(s) - 1)) ELSE s

trim(s) == TrimEnd(SubSeq(s, SkipSpace(s, 1), Len(s)))

\* String.prototype.split('\n').
RECURSIVE SplitLines(_)
SplitLines(s) ==
    LET nl == IndexOf(s, "\n", 1)
    IN  IF nl > Len(s)
        THEN << s >>
        ELSE << SubSeq(s, 1, nl - 1) >> \o SplitLines(SubSeq(s, nl + 1, Len(s)))

\* Array.prototype.join(sep) of a sequence of texts.
RECURSIVE Join(_, _)
Join(parts, sep) ==
    IF Len(parts) = 0 THEN << >>
    ELSE IF Len(parts) = 1 THEN parts[1]
    ELSE parts[1] \o sep \o Join(Tail(parts), sep)

(***************************************************************************)
(* Literals of the regular expressions.                                    *)
(***************************************************************************)
KwFunction == << "f", "u", "n", "c", "t", "i", "o", "n" >>
KwDef      == << "d", "e", "f" >>
KwClass    == << "c", "l", "a", "s", "s" >>
KwReturn   == << "r", "e", "t", "u", "r", "n" >>
NL         == << "\n" >>
SP         == << " " >>

(***************************************************************************)
(* SearchService.extractSearchSnippets  (searchService.js 268-306)         *)
(***************************************************************************)

\* The lookahead (?=\n\s*\n|\n\s*def|\n\s*class|$) at position p; withDef tells
\* whether the \n\s*def alternative is part of it (it is in functionRegex, not
\* in classRegex).  Without the m flag, $ is the end of the input.
LookaheadAt(s, p, withDef) ==
    \/ p = Len(s) + 1
    \/ /\ p <= Len(s)
       /\ s[p] = "\n"
       /\ LET q == SkipSpace(s, p + 1)
          IN  \/ \E r \in (p + 1)..(q - 1) : s[r] = "\n"
              \/ withDef /\ StartsWithAt(s, q, KwDef)
              \/ StartsWithAt(s, q, KwClass)

\* The end of a lazy [\s\S]*? that starts at p and is followed by the lookahead:
\* the first position >= p where the lookahead holds.
RECURSIVE LazyUntilLookahead(_, _, _)
LazyUntilLookahead(s, p, withDef) ==
    IF LookaheadAt(s, p, withDef) THEN p ELSE LazyUntilLookahead(s, p + 1, withDef)

\* The end of a lazy [\s\S]*? that starts at p and is followed by \n\s*\}: the
\* position after the first "}" that only whitespace separates from a line
\* break at or after p; 0 when there is none.
RECURSIVE LazyUntilClosingBrace(_, _)
LazyUntilClosingBrace(s, p) ==
    IF p > Len(s) THEN 0
    ELSE IF s[p] = "\n" /\ StartsWithAt(s, SkipSpace(s, p + 1), << "}" >>)
         THEN SkipSpace(s, p + 1) + 1
         ELSE LazyUntilClosingBrace(s, p + 1)

\* kw\s+\w+\s*\([^)]*\) at position i: the position after the ")", 0 when it
\* does not match.
MatchHeadAt(s, i, kw) ==
    IF ~StartsWithAt(s, i, kw) THEN 0
    ELSE LET a == i + Len(kw)
             b == SkipSpace(s, a)
             c == SkipWord(s, b)
             d == SkipSpace(s, c)
             e == IndexOf(s, ")", d + 1)
         IN  IF b > a /\ c > b /\ StartsWithAt(s, d, << "(" >>) /\ e <= Len(s)
             THEN e + 1
             ELSE 0

\* functionRegex at position i: the position after the match, 0 when neither
\* alternative matches there.
\*   function\s+\w+\s*\([^)]*\)\s*\{[\s\S]*?\n\s*\}
\*   def\s+\w+\s*\([^)]*\):[\s\S]*?(?=\n\s*\n|\n\s*def|\n\s*class|$)
MatchFunctionAt(s, i) ==
    LET f == MatchHeadAt(s, i, KwFunction)
        g == MatchHeadAt(s, i, KwDef)
    IN  IF f > 0
        THEN LET b == SkipSpace(s, f)
             IN  IF StartsWithAt(s, b, << "{" >>)
                 THEN LazyUntilClosingBrace(s, b + 1)
                 ELSE 0
        ELSE IF g > 0 /\ StartsWithAt(s, g, << ":" >>)
             THEN LazyUntilLookahead(s, g + 1, TRUE)
             ELSE 0

\* classRegex at position i:  class\s+\w+[\s\S]*?(?=\n\s*\n|\n\s*class|$)
MatchClassAt(s, i) ==
    IF ~StartsWithAt(s, i, KwClass) THEN 0
    ELSE LET a == i + Len(KwClass)
             b == SkipSpace(s, a)
             c == SkipWord(s, b)
         IN  IF b > a /\ c > b THEN LazyUntilLookahead(s, c, FALSE) ELSE 0

\* while ((match = functionRegex.exec(code)) !== null) snippets.push(match[0]),
\* with the g flag: the matches from position i on, leftmost first, each search
\* resuming where the match before it ended.
RECURSIVE ExecFunctions(_, _)
ExecFunctions(s, i) ==
    LET starts == { j \in i..Len(s) : MatchFunctionAt(s, j) > j }
    IN  IF starts = {} THEN << >>
        ELSE LET j == CHOOSE k \in starts : \A l \in starts : k <= l
                 e == MatchFunctionAt(s, j)
             IN  << SubSeq(s, j, e - 1) >> \o ExecFunctions(s, e)

\* The same loop over classRegex.
RECURSIVE ExecClasses(_, _)
ExecClasses(s, i) ==
    LET starts == { j \in i..Len(s) : MatchClassAt(s, j) > j }
    IN  IF starts = {} THEN << >>
        ELSE LET j == CHOOSE k \in starts : \A l \in starts : k <= l
                 e == MatchClassAt(s, j)
             IN  << SubSeq(s, j, e - 1) >> \o ExecClasses(s, e)

\* A line of the fallback pass is kept when its trimmed length exceeds
\* MinLineLength and it does not begin a comment.
MinLineLength == 20

IsSignificantLine(line) ==
    LET t == trim(line)
    IN  /\ Len(t) > MinLineLength
        /\ ~StartsWithAt(t, 1, << "/", "/" >>)
        /\ ~StartsWithAt(t, 1, << "#" >>)
        /\ ~StartsWithAt(t, 1, << "/", "*" >>)

ChunkLines == 5
MinChunkLength == 50
MaxSnippets == 10

\* for (i = 0; i < significantLines.length; i += 5): the chunks of five lines,
\* joined by line breaks, that are longer than MinChunkLength.
RECURSIVE LineChunks(_)
LineChunks(lines) ==
    IF Len(lines) = 0 THEN << >>
    ELSE LET n     == IF Len(lines) < ChunkLines THEN Len(lines) ELSE ChunkLines
             chunk == Join(SubSeq(lines, 1, n), NL)
         IN  (IF Len(chunk) > MinChunkLength THEN << chunk >> ELSE << >>)
                 \o LineChunks(SubSeq(lines, n + 1, Len(lines)))

\* The units found, without the limit of line 305.
extractAllSnippets(code) ==
    LET structural == ExecFunctions(code, 1) \o ExecClasses(code, 1)
    IN  IF Len(structural) = 0
        THEN LineChunks(SelectSeq(SplitLines(code), IsSignificantLine))
        ELSE structural

extractSearchSnippets(code) ==
    LET structural == ExecFunctions(code, 1) \o ExecClasses(code, 1)
        snippets   == IF Len(structural) = 0
                      THEN LineChunks(SelectSeq(SplitLines(code), IsSignificantLine))
                      ELSE structural
    IN  SubSeq(snippets, 1, IF Len(snippets) < MaxSnippets THEN Len(snippets) ELSE MaxSnippets)

(***************************************************************************)
(* Exact rationals, for the numbers the code computes in floating point.   *)
(* A rational is a record [n, d] in lowest terms with d > 0.               *)
(***************************************************************************)
RECURSIVE GCD(_, _)
GCD(a, b) == IF b = 0 THEN a ELSE GCD(b, a % b)

Abs(x) == IF x < 0 THEN -x ELSE x

\* 0 / 0, and what is computed from it: every comparison with it is false.
NaN == [n |-> 0, d |-> 0]

Rat(n, d) ==
    LET g == GCD(Abs(n), Abs(d))
    IN  IF d = 0 THEN NaN
        ELSE IF d < 0 THEN [n |-> (-n) \div g, d |-> (-d) \div g]
        ELSE [n |-> n \div g, d |-> d \div g]

Zero == Rat(0, 1)
One  == Rat(1, 1)

RatAdd(a, b)  == Rat(a.n * b.d + b.n * a.d, a.d * b.d)
RatMul(a, b)  == Rat(a.n * b.n, a.d * b.d)
RatLess(a, b) == a.n * b.d < b.n * a.d
RatLeq(a, b)  == a.d # 0 /\ b.d # 0 /\ a.n * b.d <= b.n * a.d
RatMax(a, b)  == IF RatLess(a, b) THEN b ELSE a

(***************************************************************************)
(* SearchService.calculateSimilarity  (searchService.js 153-168)           *)
(***************************************************************************)

\* .toLowerCase().replace(/[^\w\s]/g, ' '): every character in lower case, and a
\* character that is neither \w nor \s replaced by a space.
LowerAndBlank(text) ==
    [i \in DOMAIN text |->
        LET c == toLowerCase(text[i])
        IN  IF IsWord(c) \/ IsSpace(c) THEN c ELSE " "]

\* .replace(/\s+/g, ' '): every run of whitespace becomes one space.
RECURSIVE CollapseSpace(_)
CollapseSpace(text) ==
    IF Len(text) = 0 THEN << >>
    ELSE IF IsSpace(text[1])
         THEN SP \o CollapseSpace(SubSeq(text, SkipSpace(text, 1), Len(text)))
         ELSE << text[1] >> \o CollapseSpace(Tail(text))

normalizeText(text) == trim(CollapseSpace(LowerAndBlank(text)))

\* The bigrams of a text, in order.
Bigrams(text) == [i \in 1..(Len(text) - 1) |-> << text[i], text[i + 1] >>]

\* How often the bigram g occurs in the sequence of bigrams gs.
CountOf(gs, g) == Cardinality({ i \in DOMAIN gs : gs[i] = g })

Min(a, b) == IF a < b THEN a ELSE b

\* stringSimilarity.compareTwoStrings (string-similarity 4.x, the library the
\* service requires on line 2): whitespace is removed from both texts; equal
\* texts score 1, a text shorter than two characters scores 0, and otherwise
\* the score is Dice's coefficient over the multisets of bigrams.
compareTwoStrings(first, second) ==
    LET a  == SelectSeq(first, LAMBDA c : ~IsSpace(c))
        b  == SelectSeq(second, LAMBDA c : ~IsSpace(c))
        ga == Bigrams(a)
        gb == Bigrams(b)
        intersectionSize ==
            LET common == Range(ga) \cap Range(gb)
                Sum[S \in SUBSET common] ==
                    IF S = {} THEN 0
                    ELSE LET g == CHOOSE x \in S : TRUE
                         IN  Min(CountOf(ga, g), CountOf(gb, g)) + Sum[S \ {g}]
            IN  Sum[common]
    IN  IF a = b THEN One
        ELSE IF Len(a) < 2 \/ Len(b) < 2 THEN Zero
        ELSE Rat(2 * intersectionSize, Len(a) + Len(b) - 2)

calculateSimilarity(text1, text2) ==
    compareTwoStrings(normalizeText(text1), normalizeText(text2))

(***************************************************************************)
(* getRiskLevel  (reports.js 493-499)                                      *)
(***************************************************************************)
getRiskLevel(similarity) ==
    IF RatLeq(Rat(9, 10), similarity) THEN "critical"
    ELSE IF RatLeq(Rat(7, 10), similarity) THEN "high"
    ELSE IF RatLeq(Rat(5, 10), similarity) THEN "medium"
    ELSE IF RatLeq(Rat(3, 10), similarity) THEN "low"
    ELSE "minimal"

(***************************************************************************)
(* The texts of the submissions and of the external answers.               *)
(***************************************************************************)

\* function add(a,b){return a+b;}      one line, 30 characters
TextAdd ==
    KwFunction \o SP \o << "a", "d", "d", "(", "a", ",", "b", ")", "{" >>
        \o KwReturn \o SP \o << "a", "+", "b", ";", "}" >>

\* function f(a){
\*   return a;
\* }
TextF ==
    KwFunction \o SP \o << "f", "(", "a", ")", "{" >> \o NL
        \o SP \o SP \o KwReturn \o SP \o << "a", ";" >> \o NL \o << "}" >>

\* function g(){
\* }
TextG == KwFunction \o SP \o << "g", "(", ")", "{" >> \o NL \o << "}" >>

\* The two functions above, a line break between them.
TextFG == TextF \o NL \o TextG

\* var x = 1;       a text the external sources answer with
TextOther == << "v", "a", "r", " ", "x", " ", "=", " ", "1", ";" >>

(***************************************************************************)
(* Values of the JavaScript program that are not texts.  A text holds      *)
(* one-character strings only, so none of these is a text.                 *)
(***************************************************************************)
Undefined  == << "undefined" >>   \* a property that is absent
NotAString == << "number" >>      \* a content that is a number, not a string

IsString(v) == v # Undefined /\ v # NotAString

\* The truthiness of a text or of an absent property: if (match.snippet).
Truthy(v) == v # Undefined /\ Len(v) > 0

(***************************************************************************)
(* SearchService.extractCodeFromAnswer  (searchService.js 109-128)         *)
(***************************************************************************)
TagPre       == << "<", "p", "r", "e", ">" >>
TagCode      == << "<", "c", "o", "d", "e", ">" >>
TagCodeEnd   == << "<", "/", "c", "o", "d", "e", ">" >>
TagPreEnd    == << "<", "/", "p", "r", "e", ">" >>

\* The first position >= i where the literal lit stands (Len(s) + 1 if none).
RECURSIVE Find(_, _, _)
Find(s, lit, i) ==
    IF i > Len(s) \/ StartsWithAt(s, i, lit) THEN i ELSE Find(s, lit, i + 1)

\* /<pre><code>([\s\S]*?)<\/code><\/pre>/g: the captured groups from i on.
RECURSIVE CodeBlocks(_, _)
CodeBlocks(s, i) ==
    LET open  == Find(s, TagPre \o TagCode, i)
        from  == open + Len(TagPre \o TagCode)
        close == Find(s, TagCodeEnd \o TagPreEnd, from)
    IN  IF open > Len(s) \/ close > Len(s) THEN << >>
        ELSE << SubSeq(s, from, close - 1) >>
                 \o CodeBlocks(s, close + Len(TagCodeEnd \o TagPreEnd))

\* /<code>([^<]*)<\/code>/g: the captured groups from i on.
RECURSIVE InlineCode(_, _)
InlineCode(s, i) ==
    LET open == Find(s, TagCode, i)
        from == open + Len(TagCode)
        stop == IndexOf(s, "<", from)
    IN  IF open > Len(s) THEN << >>
        ELSE IF StartsWithAt(s, stop, TagCodeEnd)
             THEN << SubSeq(s, from, stop - 1) >> \o InlineCode(s, stop + Len(TagCodeEnd))
             ELSE InlineCode(s, open + 1)

extractCodeFromAnswer(answerBody) ==
    Join(CodeBlocks(answerBody, 1) \o InlineCode(answerBody, 1), NL)

(***************************************************************************)
(* What the external services answer.  A response carries the first n      *)
(* entries of the service's result list.                                   *)
(***************************************************************************)

\* The k-th entry of a code-search response of the repository host (the
\* fields path, repository.full_name and language are carried along by the
\* code and read nowhere in the pipeline; they are left out).
GitHubItem(k) == [name |-> << "g", k >>, html_url |-> << "github.com", k >>]

\* The k-th question of a question-search response, with its number of
\* answers.
Question(k, answers) ==
    [title |-> << "q", k >>, link |-> << "stackoverflow.com", k >>,
     answer_count |-> answers]

\* <pre><code>var x = 1;</code></pre>      the body of a top answer
AnswerBody == TagPre \o TagCode \o TextOther \o TagCodeEnd \o TagPreEnd

\* The k-th organic result of a web-search response: the first carries a
\* snippet of its own, the second none, the later ones the text of TextF.
WebItem(k) ==
    [title |-> << "w", k >>, link |-> << "example.org", k >>,
     snippet |-> IF k = 1 THEN TextOther ELSE IF k = 2 THEN Undefined ELSE TextF]

(***************************************************************************)
(* Candidates.  A candidate is a record of the fields the pipeline reads:  *)
(* title, link, snippet, source, url.  Three more fields are history: unit *)
(* (the index of the unit the query was made for), rank (the place in the  *)
(* list the source returned) and returned (the snippet text the source     *)
(* itself returned, which the code overwrites).                            *)
(***************************************************************************)
NoSource == "undefined"   \* the source property of a candidate that has none

Candidate(title, link, snippet, source, url) ==
    [title |-> title, link |-> link, snippet |-> snippet, source |-> source,
     url |-> url, unit |-> 0, rank |-> 0, returned |-> snippet]

\* githubService.searchCode, lines 203-209: the mapping of the items.
MapGitHubItems(items) ==
    [k \in DOMAIN items |->
        Candidate(Undefined, Undefined, Undefined, NoSource, items[k].html_url)]

\* searchService.searchWeb, lines 32-38: the mapping of the organic results.
MapWebItems(items) ==
    [k \in DOMAIN items |->
        Candidate(items[k].title, items[k].link, items[k].snippet, "web", Undefined)]

\* searchService.searchStackOverflow, lines 85-95: the candidate of a question
\* and its top answer.
AnswerCandidate(question, body) ==
    Candidate(question.title, question.link, extractCodeFromAnswer(body),
              "stackoverflow", Undefined)

\* What a search operation hands to its caller: it either throws or returns a
\* sequence of candidates.
Returned(value) == [threw |-> FALSE, value |-> value]
Thrown          == [threw |-> TRUE, value |-> << >>]

\* A response of an external service: the request failed (a transport, an
\* authentication or a rate-limit error), or it carries a body, with or
\* without the list of entries.
Failure        == [failed |-> TRUE, hasItems |-> FALSE, items |-> << >>]
NoItems        == [failed |-> FALSE, hasItems |-> FALSE, items |-> << >>]
Items(entries) == [failed |-> FALSE, hasItems |-> TRUE, items |-> entries]

\* githubService.searchCode, lines 189-214.
searchCode(response) ==
    IF response.failed
    THEN Returned(<< >>)                               \* catch: return []
    ELSE Returned(MapGitHubItems(response.items))

\* searchService.searchWeb, lines 22-45, once the request was made.  The
\* response may carry no organic_results (hasItems = FALSE).
searchWeb(response) ==
    IF response.failed
    THEN Returned(<< >>)                               \* catch: return []
    ELSE IF ~response.hasItems
         THEN Returned(<< >>)                          \* line 41
         ELSE Returned(MapWebItems(response.items))

\* A catch that hands back what the loop had collected before the failure.
searchStackOverflowPartial(results) == Returned(results)

\* searchService.searchStackOverflow, lines 103-106: the catch block, entered
\* from the question search and from every answer fetch; results are the
\* candidates built so far.
searchStackOverflowCatch(results) == Returned(<< >>)

\* The first question from index qi on that has an answer (Len + 1 if none):
\* the next iteration of the loop of lines 71-97 that makes a request.
RECURSIVE NextAnswered(_, _)
NextAnswered(questions, qi) ==
    IF qi <= Len(questions) /\ ~(questions[qi].answer_count > 0)
    THEN NextAnswered(questions, qi + 1)
    ELSE qi

(***************************************************************************)
(* analyzeFile  (reports.js 332-443)                                       *)
(***************************************************************************)

\* Lines 374-378, 388-392, 402-406: the candidates of one source, tagged with
\* the source and with the unit as snippet, appended to the unit's matches.
TagMatches(value, source, snippet, unitIdx) ==
    [k \in DOMAIN value |->
        [value[k] EXCEPT !.source = source, !.snippet = snippet,
                         !.unit = unitIdx, !.rank = k]]

\* Lines 413-424: the matches of one unit that become matches of the file.
RECURSIVE ScoreMatches(_, _, _)
ScoreMatches(matches, snippet, similarityThreshold) ==
    IF Len(matches) = 0 THEN << >>
    ELSE LET match      == matches[1]
             similarity == calculateSimilarity(snippet, match.snippet)
             rest       == ScoreMatches(Tail(matches), snippet, similarityThreshold)
         IN  IF Truthy(match.snippet) /\ RatLess(similarityThreshold, similarity)
             THEN << [title |-> match.title, link |-> match.link,
                      snippet |-> match.snippet, source |-> match.source,
                      url |-> match.url, unit |-> match.unit, rank |-> match.rank,
                      returned |-> match.returned,
                      similarity |-> similarity,
                      risk |-> getRiskLevel(similarity)] >> \o rest
             ELSE rest

\* A sort that is not stable: m is put before the elements equal to it.
RECURSIVE InsertSortedUnstable(_, _)
InsertSortedUnstable(sorted, m) ==
    IF Len(sorted) = 0 THEN << m >>
    ELSE IF RatLeq(sorted[1].similarity, m.similarity)
         THEN << m >> \o sorted
         ELSE << sorted[1] >> \o InsertSortedUnstable(Tail(sorted), m)

\* Line 428: allMatches.sort((a, b) => b.similarity - a.similarity).  The sort
\* of the engine is stable: m is put after the last element that is not
\* smaller than it.
RECURSIVE InsertSorted(_, _)
InsertSorted(sorted, m) ==
    IF Len(sorted) = 0 THEN << m >>
    ELSE IF RatLess(sorted[1].similarity, m.similarity)
         THEN << m >> \o sorted
         ELSE << sorted[1] >> \o InsertSorted(Tail(sorted), m)

RECURSIVE SortBySimilarity(_)
SortBySimilarity(ms) ==
    IF Len(ms) = 0 THEN << >>
    ELSE InsertSorted(SortBySimilarity(SubSeq(ms, 1, Len(ms) - 1)), ms[Len(ms)])

RECURSIVE MaxSimilarity(_)
MaxSimilarity(ms) ==
    IF Len(ms) = 1 THEN ms[1].similarity
    ELSE RatMax(ms[1].similarity, MaxSimilarity(Tail(ms)))

RECURSIVE SumSimilarity(_)
SumSimilarity(ms) ==
    IF Len(ms) = 0 THEN Zero ELSE RatAdd(ms[1].similarity, SumSimilarity(Tail(ms)))

\* Lines 431-435 without the test of line 431: the maximum of nothing and the
\* division by a length of 0 give a score that is not a number.
PlagiarismScoreUnguarded(ms) ==
    IF Len(ms) > 0
    THEN RatAdd(RatMul(MaxSimilarity(ms), Rat(7, 10)),
                RatMul(RatMul(SumSimilarity(ms), Rat(1, Len(ms))), Rat(3, 10)))
    ELSE NaN

\* Lines 431-435 with the sum of the similarities in the place of their mean.
PlagiarismScoreOfSum(ms) ==
    IF Len(ms) > 0
    THEN RatAdd(RatMul(MaxSimilarity(ms), Rat(7, 10)),
                RatMul(SumSimilarity(ms), Rat(3, 10)))
    ELSE Zero

\* Lines 431-435.
PlagiarismScore(ms) ==
    IF Len(ms) > 0
    THEN LET maxSimilarity == MaxSimilarity(ms)
             avgSimilarity == RatMul(SumSimilarity(ms), Rat(1, Len(ms)))
         IN  RatAdd(RatMul(maxSimilarity, Rat(7, 10)), RatMul(avgSimilarity, Rat(3, 10)))
    ELSE Zero

(***************************************************************************)
(* The submissions, options and credentials explored.                      *)
(***************************************************************************)
FileAdd       == [filename |-> "add.js",  content |-> TextAdd]
FileF         == [filename |-> "f.js",    content |-> TextF]
FileFG        == [filename |-> "fg.js",   content |-> TextFG]
FileNoContent == [filename |-> "none.js", content |-> Undefined]
FileNumber    == [filename |-> "num.js",  content |-> NotAString]

FilePool == { FileAdd, FileF, FileFG, FileNoContent, FileNumber }

\* The number of units of a file, and of a submission.
UnitsOf(file) ==
    IF IsString(file.content) THEN Len(extractSearchSnippets(file.content)) ELSE 0

RECURSIVE TotalUnits(_)
TotalUnits(files) ==
    IF Len(files) = 0 THEN 0 ELSE UnitsOf(files[1]) + TotalUnits(Tail(files))

MaxFiles == 2
MaxUnits == 2

\* The submissions: up to MaxFiles files of the pool, with up to MaxUnits units
\* in all.
Submissions ==
    { files \in UNION { [1..n -> FilePool] : n \in 0..MaxFiles } :
        TotalUnits(files) <= MaxUnits }

(***************************************************************************)
(* AIDetectionService  (aiDetection.js)                                    *)
(***************************************************************************)

DigitChars == << "0", "1", "2", "3", "4", "5", "6", "7", "8", "9" >>

DigitValue(c) == (CHOOSE i \in DOMAIN DigitChars : DigitChars[i] = c) - 1

\* The number a run of decimal digits writes.
RECURSIVE NumberOf(_, _)
NumberOf(ds, acc) ==
    IF Len(ds) = 0 THEN acc
    ELSE NumberOf(Tail(ds), acc * 10 + DigitValue(Head(ds)))

RECURSIVE PowerOfTen(_)
PowerOfTen(k) == IF k = 0 THEN 1 ELSE 10 * PowerOfTen(k - 1)

\* The first index from i on whose character is a digit (or is not one);
\* Len(s) + 1 when there is none.
RECURSIVE FirstDigit(_, _)
FirstDigit(s, i) ==
    IF i > Len(s) \/ s[i] \in Digits THEN i ELSE FirstDigit(s, i + 1)

RECURSIVE SkipDigits(_, _)
SkipDigits(s, i) ==
    IF i > Len(s) \/ s[i] \notin Digits THEN i ELSE SkipDigits(s, i + 1)

\* Line 163: content.match(/(\d+\.?\d*)/), the first run of digits with an
\* optional point and further digits; none when the text has no digit.
NoNumber == [found |-> FALSE, value |-> Zero]

ProbabilityMatch(content) ==
    LET i == FirstDigit(content, 1)
        j == SkipDigits(content, i)
        hasPoint == j <= Len(content) /\ content[j] = "."
        k == IF hasPoint THEN SkipDigits(content, j + 1) ELSE j
        whole == NumberOf(SubSeq(content, i, j - 1), 0)
        fraction == IF hasPoint THEN SubSeq(content, j + 1, k - 1) ELSE << >>
    IN  IF i > Len(content) THEN NoNumber
        ELSE [found |-> TRUE,
              value |-> Rat(whole * PowerOfTen(Len(fraction))
                               + NumberOf(fraction, 0),
                            PowerOfTen(Len(fraction)))]

\* What generateContent gives (line 152): a text that JSON.parse accepts, with
\* or without a number under "aiProbability"; another text; or an error.
JsonAnswer(has, aiProbability) ==
    [kind |-> "json", has |-> has, aiProbability |-> aiProbability,
     content |-> << >>]

TextAnswer(content) ==
    [kind |-> "text", has |-> FALSE, aiProbability |-> Zero, content |-> content]

ModelFails == [kind |-> "error", has |-> FALSE, aiProbability |-> Zero,
               content |-> << >>]

ModelAnswers ==
    { JsonAnswer(TRUE, Rat(3, 4)),
      JsonAnswer(TRUE, Rat(5, 1)),
      JsonAnswer(TRUE, Rat(0 - 1, 2)),
      JsonAnswer(FALSE, Zero),
      TextAnswer(<< "7", "5", "%" >>),
      TextAnswer(<< "a", "b", "o", "u", "t", " ", "0", ".", "5" >>),
      TextAnswer(<< "n", "o" >>),
      ModelFails }

\* x || 0 on a number.
OrZero(x) == IF x.d = 0 \/ x.n = 0 THEN Zero ELSE x

\* openaiAnalysis (lines 127-177): 0 without a client (129-131) and on an
\* error (170-176); the number of the parsed answer as it is (158); else the
\* first number of the text divided by 100 (163-165).
openaiAnalysis(configured, answer) ==
    [aiProbability |->
        IF ~configured \/ answer.kind = "error" THEN Zero
        ELSE IF answer.kind = "json"
        THEN IF answer.has THEN OrZero(answer.aiProbability) ELSE Zero
        ELSE LET m == ProbabilityMatch(answer.content)
             IN  IF m.found THEN RatMul(m.value, Rat(1, 100)) ELSE Zero,
     reasoning |->
        IF ~configured THEN "Gemini API not configured"
        ELSE IF answer.kind = "error" THEN "Analysis failed"
        ELSE "reasoning"]

\* analyzeAIPatterns (56-125) and statisticalAnalysis (179-241) by what they
\* can return: a score that Math.min keeps at most 1 (122, 238) and that is
\* a sum of non-negative terms, and the number of the patterns found.
Heuristics ==
    { [pattern |-> [aiScore |-> Zero, totalPatterns |-> 0],
       statistical |-> [aiScore |-> Zero]],
      [pattern |-> [aiScore |-> Zero, totalPatterns |-> 0],
       statistical |-> [aiScore |-> Rat(1, 5)]],
      [pattern |-> [aiScore |-> Rat(1, 2), totalPatterns |-> 2],
       statistical |-> [aiScore |-> Rat(1, 5)]],
      [pattern |-> [aiScore |-> One, totalPatterns |-> 5],
       statistical |-> [aiScore |-> One]] }

RatMin(a, b) == IF RatLess(b, a) THEN b ELSE a

\* calculateConfidence (375-397).
calculateConfidence(pattern, openai, statistical) ==
    LET c1 == IF pattern.totalPatterns > 0
              THEN Rat(pattern.totalPatterns, 10) ELSE Zero
        c2 == IF RatLess(Zero, openai.aiProbability) THEN Rat(3, 10) ELSE Zero
        c3 == IF RatLess(Zero, statistical.aiScore) THEN Rat(1, 5) ELSE Zero
        factors == (IF pattern.totalPatterns > 0 THEN 1 ELSE 0)
                   + (IF RatLess(Zero, openai.aiProbability) THEN 1 ELSE 0)
                   + (IF RatLess(Zero, statistical.aiScore) THEN 1 ELSE 0)
    IN  IF factors > 0
        THEN RatMin(RatMul(RatAdd(RatAdd(c1, c2), c3), Rat(1, factors)), One)
        ELSE Zero

\* result.aiAnalysis before the check (line 348: null).
NullAnalysis ==
    [present |-> FALSE, aiProbability |-> Zero, confidence |-> Zero,
     opinion |-> Zero, reasoning |-> "", totalPatterns |-> 0,
     statistical |-> Zero, error |-> ""]

\* The weighted sum for any code, a code that is not a string included.
detectAnyCode(code, heuristics, openai) ==
    [present |-> TRUE,
     aiProbability |->
         RatAdd(RatAdd(RatMul(OrZero(heuristics.pattern.aiScore), Rat(2, 5)),
                       RatMul(OrZero(openai.aiProbability), Rat(2, 5))),
                RatMul(OrZero(heuristics.statistical.aiScore), Rat(1, 5))),
     confidence |-> Zero, opinion |-> openai.aiProbability,
     reasoning |-> openai.reasoning,
     totalPatterns |-> heuristics.pattern.totalPatterns,
     statistical |-> heuristics.statistical.aiScore, error |-> ""]

\* detectAIGeneratedCode (11-54).  A code that is not a string makes
\* analyzeAIPatterns throw (code.split, line 244) before the model is asked:
\* the catch of lines 44-53 answers.
detectAIGeneratedCode(code, heuristics, openai) ==
    IF ~IsString(code)
    THEN [NullAnalysis EXCEPT !.present = TRUE, !.error = "TypeError"]
    ELSE [present |-> TRUE,
          aiProbability |->
              RatAdd(RatAdd(RatMul(OrZero(heuristics.pattern.aiScore), Rat(2, 5)),
                            RatMul(OrZero(openai.aiProbability), Rat(2, 5))),
                     RatMul(OrZero(heuristics.statistical.aiScore), Rat(1, 5))),
          confidence |->
              calculateConfidence(heuristics.pattern, openai,
                                  heuristics.statistical),
          opinion |-> openai.aiProbability,
          reasoning |-> openai.reasoning,
          totalPatterns |-> heuristics.pattern.totalPatterns,
          statistical |-> heuristics.statistical.aiScore,
          error |-> ""]

\* The options of a request (reports.js 333-339), without the authorship
\* check of lines 353-358.
Options(gh, so, web, threshold) ==
    [searchGitHub |-> gh, searchStackOverflow |-> so, searchWeb |-> web,
     detectAI |-> FALSE, similarityThreshold |-> threshold]

DefaultThreshold == Rat(3, 10)

\* process.env: which credentials are configured.
Keys(b) ==
    [GITHUB_TOKEN |-> b, STACKOVERFLOW_API_KEY |-> b, SERPAPI_KEY |-> b,
     GEMINI_API_KEY |-> b]

\* The options and credentials explored: every search with its credentials;
\* the repository host alone, without credentials; the other two searches
\* without credentials, and a threshold that no similarity exceeds.
Settings ==
    { << Options(TRUE, TRUE, TRUE, DefaultThreshold), Keys(TRUE) >>,
      << Options(TRUE, FALSE, FALSE, DefaultThreshold), Keys(FALSE) >>,
      << Options(FALSE, TRUE, TRUE, One), Keys(FALSE) >> }

\* The external services: the failed requests and the entries of the
\* responses of one submission are at most MaxEvents in all; every other
\* response is empty.
MaxEvents == 2

(***************************************************************************)
(* State.                                                                  *)
(***************************************************************************)
VARIABLES
    codeFiles,    \* req.body.codeFiles
    options,      \* req.body.options
    keys,         \* process.env
    pc,           \* where the request handler stands
    response,     \* what the handler answered: [status, files]
    results,      \* /analyze: results.files and results.summary
    fileIdx,      \* /analyze: the index of the file of the loop of line 251
    result,       \* analyzeFile: result
    snippets,     \* analyzeFile: snippets
    unitIdx,      \* analyzeFile: the index of the snippet of the loop of line 367
    matches,      \* analyzeFile: matches, of the current unit
    allMatches,   \* analyzeFile: allMatches
    call,         \* the request in flight: [to, status], or NoCall
    so,           \* searchStackOverflow: questions, the index of the loop, results
    events,       \* the failed requests and the entries received so far
    lastCall,     \* history: the last search operation that ended
    searches,     \* history: the search operations called for this file
    found,        \* history: the candidates the operations returned for this file
    failed,       \* history: the (unit, source) whose request failed, this file
    runs          \* history: the analyses of files ended so far

vars ==
    << codeFiles, options, keys, pc, response, results, fileIdx, result, snippets,
       unitIdx, matches, allMatches, call, so, events, lastCall, searches, found,
       failed, runs >>

SourceKinds == { "github", "stackoverflow", "web" }

\* The answer of the route: the status and, with status 200, results.
Respond(status, files, summary, sources) ==
    [status |-> status, files |-> files, summary |-> summary, sources |-> sources]

NoSummary == [plagiarismScore |-> Zero, aiGeneratedScore |-> Zero,
              totalMatches |-> 0, highRiskFiles |-> << >>]

NoSources == [kind \in SourceKinds |-> << >>]

NoResponse == Respond(0, << >>, NoSummary, NoSources)

NoCall     == [to |-> "none", status |-> "none"]
NoSO       == [questions |-> << >>, qi |-> 0, results |-> << >>, fetches |-> 0]
NoResult   == [filename |-> "", plagiarismScore |-> Zero, aiGeneratedScore |-> Zero,
               matches |-> << >>, aiAnalysis |-> NullAnalysis, error |-> ""]
NoLastCall == [source |-> "none", unit |-> 0, configured |-> TRUE, failed |-> FALSE,
               threw |-> FALSE, value |-> << >>]
NoResults  == [files |-> << >>, highRiskFiles |-> << >>, totalMatches |-> 0]

Init ==
    /\ codeFiles \in Submissions
    /\ \E setting \in Settings : options = setting[1] /\ keys = setting[2]
    /\ pc = "request"
    /\ response = NoResponse
    /\ results = NoResults
    /\ fileIdx = 0
    /\ result = NoResult
    /\ snippets = << >>
    /\ unitIdx = 0
    /\ matches = << >>
    /\ allMatches = << >>
    /\ call = NoCall
    /\ so = NoSO
    /\ events = 0
    /\ lastCall = NoLastCall
    /\ searches = 0
    /\ found = << >>
    /\ failed = {}
    /\ runs = << >>

input   == << codeFiles, options, keys >>
route   == << response, results, fileIdx, runs >>
file    == << result, snippets, unitIdx, allMatches >>
network == << call, so, events >>
history == << lastCall, searches, found, failed >>


(***************************************************************************)
(* aggregateSources  (reports.js 446-490)                                  *)
(***************************************************************************)

\* A map in which no key is ever found again.
IndexOfKeyNotFound(aggs, source, link) == 0

\* The index in aggs of the entry with the key `${source}-${link}`, 0 if none.
IndexOfKey(aggs, source, link) ==
    IF \E i \in DOMAIN aggs : aggs[i].source = source /\ aggs[i].link = link
    THEN CHOOSE i \in DOMAIN aggs : aggs[i].source = source /\ aggs[i].link = link
    ELSE 0

\* Lines 457-473: one match of the file filename, added to the map.
AddMatch(aggs, filename, match) ==
    LET i     == IndexOfKey(aggs, match.source, match.link)
        fresh == [source |-> match.source, title |-> match.title, link |-> match.link,
                  files |-> << >>, maxSimilarity |-> Zero, totalMatches |-> 0]
        all   == IF i = 0 THEN Append(aggs, fresh) ELSE aggs
        j     == IF i = 0 THEN Len(all) ELSE i
    IN  [all EXCEPT ![j] =
            [@ EXCEPT !.files = Append(@, filename),
                      !.maxSimilarity = RatMax(@, match.similarity),
                      !.totalMatches = @ + 1]]

RECURSIVE AddMatches(_, _, _)
AddMatches(aggs, filename, ms) ==
    IF Len(ms) = 0 THEN aggs
    ELSE AddMatches(AddMatch(aggs, filename, ms[1]), filename, Tail(ms))

RECURSIVE SourceMap(_, _)
SourceMap(aggs, files) ==
    IF Len(files) = 0 THEN aggs
    ELSE SourceMap(AddMatches(aggs, files[1].filename, files[1].matches), Tail(files))

\* The entries kept in the order of the map.
InsertLast(sorted, a) == Append(sorted, a)

\* Line 486: sources[key].sort((a, b) => b.maxSimilarity - a.maxSimilarity).
RECURSIVE InsertByMax(_, _)
InsertByMax(sorted, a) ==
    IF Len(sorted) = 0 THEN << a >>
    ELSE IF RatLess(sorted[1].maxSimilarity, a.maxSimilarity)
         THEN << a >> \o sorted
         ELSE << sorted[1] >> \o InsertByMax(Tail(sorted), a)

RECURSIVE SortByMax(_)
SortByMax(aggs) ==
    IF Len(aggs) = 0 THEN << >>
    ELSE InsertByMax(SortByMax(SubSeq(aggs, 1, Len(aggs) - 1)), aggs[Len(aggs)])

aggregateSources(files) ==
    LET sourceMap == SourceMap(<< >>, files)
    IN  [kind \in SourceKinds |->
            SortByMax(SelectSeq(sourceMap, LAMBDA a : a.source = kind))]

(***************************************************************************)
(* POST /analyze  (reports.js 221-290)                                     *)
(***************************************************************************)
\* Lines 286-289: the catch of the route.
AnalysisFailed == Respond(500, << >>, NoSummary, NoSources)

\* Lines 223-248: the request is validated and results is set up.
ReceiveRequest ==
    /\ pc = "request"
    /\ IF Len(codeFiles) = 0
       THEN /\ response' = Respond(400, << >>, NoSummary, NoSources)
            /\ pc' = "responded"
            /\ fileIdx' = fileIdx
       ELSE /\ response' = response
            /\ pc' = "file"
            /\ fileIdx' = 1
    /\ UNCHANGED << input, results, file, matches, network, history, runs >>

\* The searches of one unit in the order of lines 370-410, and the options
\* that enable them.
Stages == << "github", "stackoverflow", "web" >>

Enabled(opts, stage) ==
    CASE stage = "github"        -> opts.searchGitHub
      [] stage = "stackoverflow" -> opts.searchStackOverflow
      [] stage = "web"           -> opts.searchWeb

\* The first enabled search from stage number k on: where the body of the loop
\* of line 367 next awaits; "score" when it reaches line 412 without a search.
RECURSIVE StageFrom(_, _)
StageFrom(opts, k) ==
    IF k > Len(Stages) THEN "score"
    ELSE IF Enabled(opts, Stages[k]) THEN Stages[k]
    ELSE StageFrom(opts, k + 1)

\* Where analyzeFile stands with unit number k of n: at the first search of
\* the unit, or past the loop (line 427).
UnitOrSort(opts, k, n) == IF k <= n THEN StageFrom(opts, 1) ELSE "sort"

\* Lines 341-350 of analyzeFile: the result of a file before its analysis.
NewResult(f) ==
    [filename |-> f.filename, plagiarismScore |-> Zero, aiGeneratedScore |-> Zero,
     matches |-> << >>, aiAnalysis |-> NullAnalysis, error |-> ""]

\* Lines 364-367: the units of the file and the way into the loop.  A
\* content that is not a string makes extractSearchSnippets throw on line
\* 364, inside the try.
ExtractUnits(f, res) ==
    IF IsString(f.content)
    THEN /\ result' = res
         /\ snippets' = extractSearchSnippets(f.content)
         /\ pc' = UnitOrSort(options, 1, Len(extractSearchSnippets(f.content)))
    ELSE /\ result' = [res EXCEPT !.error = "TypeError"]
         /\ snippets' = << >>
         /\ pc' = "fileDone"

\* The list of the file analysed before, kept for the next file.
LeftOverMatches == allMatches

\* Line 365: const allMatches = [], a list of this call of analyzeFile.
NewMatches == << >>

\* Line 254 and analyzeFile up to the authorship check of line 354 or, without
\* it, up to the loop of line 367.  Reading file.content.length on line 344
\* throws when the content is absent, outside the try of analyzeFile: the
\* route's catch answers.
StartFile ==
    /\ pc = "file"
    /\ fileIdx <= Len(codeFiles)
    /\ LET f == codeFiles[fileIdx]
       IN  IF f.content = Undefined
           THEN /\ response' = AnalysisFailed
                /\ pc' = "responded"
                /\ UNCHANGED << file, searches, found, failed >>
           ELSE /\ response' = response
                /\ searches' = 0
                /\ found' = << >>
                /\ failed' = {}
                /\ allMatches' = NewMatches
                /\ unitIdx' = 1
                /\ IF options.detectAI
                   THEN /\ result' = NewResult(f)
                        /\ snippets' = << >>
                        /\ pc' = "detect"
                   ELSE ExtractUnits(f, NewResult(f))
    /\ matches' = << >>
    /\ UNCHANGED << input, results, fileIdx, network, lastCall, runs >>

\* Lines 354-358: the authorship check of the file, the request to the
\* generative model included, then lines 364-367.
DetectAI ==
    /\ pc = "detect"
    /\ \E heuristics \in Heuristics, answer \in ModelAnswers :
          LET f == codeFiles[fileIdx]
              analysis ==
                  detectAIGeneratedCode(
                      f.content, heuristics,
                      openaiAnalysis(keys.GEMINI_API_KEY, answer))
          IN  ExtractUnits(f, [result EXCEPT
                                 !.aiAnalysis = analysis,
                                 !.aiGeneratedScore = analysis.aiProbability])
    /\ UNCHANGED << input, response, results, fileIdx, unitIdx, allMatches,
                    matches, network, history, runs >>

(***************************************************************************)
(* The three searches of one unit  (reports.js 370-410)                    *)
(***************************************************************************)

\* What the body of the loop sees of a search: the candidates, or an error
\* that escaped the try of lines 372-381 (388-395, 400-409).
Seen(value) == [escaped |-> FALSE, value |-> value]
Escaped     == [escaped |-> TRUE, value |-> << >>]

\* try { ... await search(...) ... } catch (error) { console.warn(...) }: what
\* the operation threw is caught and nothing is pushed.
Guard(out) == IF out.threw THEN Seen(<< >>) ELSE Seen(out.value)

\* The search of the repository host without the try of lines 371-382 around
\* it and without the catch of searchCode: a failed request escapes to the
\* catch of line 437.
SearchGitHubUnguarded(resp) ==
    IF resp.failed THEN Escaped ELSE Seen(searchCode(resp).value)

\* Lines 371-382: the search of the repository host, seen from the loop.
SearchGitHub(resp) == Guard(searchCode(resp))

\* Lines 399-410: the web search, seen from the loop.
SearchWeb(resp) == Guard(searchWeb(resp))

\* The responses a service can give now: a body without a list or with an
\* empty one and, while events are left, a failure or the first n entries.
Responses(entries, withNoItems) ==
    (IF events < MaxEvents THEN { Failure } ELSE {})
        \cup (IF withNoItems THEN { NoItems } ELSE {})
        \cup { Items(SubSeq(entries, 1, n)) : n \in 0..(MaxEvents - events) }

\* The responses to a question search: the same, a question having one answer
\* or none.
QuestionResponses ==
    (IF events < MaxEvents THEN { Failure } ELSE {})
        \cup { NoItems }
        \cup { Items([k \in 1..n |-> Question(k, answers[k])]) :
                 n \in 0..(MaxEvents - events), answers \in [1..(MaxEvents - events) -> 0..1] }

\* The count of events after the response resp.
Spend(resp) ==
    events' = IF resp.failed THEN events + 1 ELSE events + Len(resp.items)

\* The loop body goes on after the search of source: the candidates seen are
\* tagged and pushed (lines 374-378); an escaped error reaches the catch of
\* lines 437-440.
Continue(source, configured, requestFailed, out, seen, next) ==
    LET tagged == TagMatches(seen.value, source, snippets[unitIdx], unitIdx)
    IN  /\ lastCall' = [source |-> source, unit |-> unitIdx, configured |-> configured,
                        failed |-> requestFailed, threw |-> out.threw,
                        value |-> out.value]
        /\ failed' = IF requestFailed THEN failed \cup { << unitIdx, source >> } ELSE failed
        /\ call' = NoCall
        /\ IF seen.escaped
           THEN /\ result' = [result EXCEPT !.error = "search failed"]
                /\ pc' = "fileDone"
                /\ UNCHANGED << matches, found >>
           ELSE /\ matches' = matches \o tagged
                /\ found' = found \o tagged
                /\ pc' = next
                /\ result' = result

Pending(to) == [to |-> to, status |-> "pending"]

\* Line 196: the request of searchCode is made, with or without a token.
CallGitHub ==
    /\ pc = "github"
    /\ options.searchGitHub
    /\ call = NoCall
    /\ call' = Pending("github")
    /\ searches' = searches + 1
    /\ UNCHANGED << input, route, file, matches, pc, so, events, lastCall, found, failed >>

GitHubResponds ==
    /\ pc = "github"
    /\ call = Pending("github")
    /\ \E resp \in Responses([k \in 1..MaxEvents |-> GitHubItem(k)], FALSE) :
          /\ Spend(resp)
          /\ Continue("github", keys.GITHUB_TOKEN, resp.failed,
                      searchCode(resp), SearchGitHub(resp), StageFrom(options, 2))
    /\ UNCHANGED << input, route, snippets, unitIdx, allMatches, so, searches >>

\* Line 55: the question search is requested, with the key or as 'anonymous'.
CallStackOverflow ==
    /\ pc = "stackoverflow"
    /\ options.searchStackOverflow
    /\ call = NoCall
    /\ call' = Pending("questions")
    /\ so' = NoSO
    /\ searches' = searches + 1
    /\ UNCHANGED << input, route, file, matches, pc, events, lastCall, found, failed >>

\* searchStackOverflow returns out; lines 385-396 of the loop go on.
StackOverflowReturns(requestFailed, out) ==
    /\ Continue("stackoverflow", keys.STACKOVERFLOW_API_KEY, requestFailed,
                out, Guard(out), StageFrom(options, 3))
    /\ so' = NoSO

\* The loop of lines 71-97 from question qi on, with the results so far: the
\* answers of the next question that has any are requested (line 74), or the
\* results are returned (line 99).
NextQuestion(questions, qi, soResults) ==
    LET q == NextAnswered(questions, qi)
    IN  IF q <= Len(questions)
        THEN /\ so' = [questions |-> questions, qi |-> q, results |-> soResults,
                        fetches |-> so.fetches + 1]
             /\ call' = Pending("answers")
             /\ UNCHANGED << pc, result, matches, lastCall, found, failed >>
        ELSE StackOverflowReturns(FALSE, Returned(soResults))

\* Lines 55-70: the response to the question search, one of responses.
QuestionsRespondWith(responses) ==
    /\ pc = "stackoverflow"
    /\ \E resp \in responses :
          /\ Spend(resp)
          /\ IF resp.failed
             THEN StackOverflowReturns(TRUE, searchStackOverflowCatch(<< >>))
             ELSE IF ~resp.hasItems
                  THEN StackOverflowReturns(FALSE, Returned(<< >>))      \* line 102
                  ELSE NextQuestion(resp.items, 1, << >>)
    /\ UNCHANGED << input, route, snippets, unitIdx, allMatches, searches >>

QuestionsRespond ==
    /\ call = Pending("questions")
    /\ QuestionsRespondWith(QuestionResponses)

\* The responses to an answer fetch: a failure, no answer, or the top answer
\* (they are counted with the question).
AnswerResponses == { Failure, NoItems, Items(<< [body |-> AnswerBody] >>) }

AnswerResponds ==
    /\ pc = "stackoverflow"
    /\ call = Pending("answers")
    /\ \E resp \in AnswerResponses :
          /\ events' = events
          /\ IF resp.failed
             THEN StackOverflowReturns(TRUE, searchStackOverflowCatch(so.results))
             ELSE NextQuestion(so.questions, so.qi + 1,
                               IF resp.hasItems /\ Len(resp.items) > 0
                               THEN Append(so.results,
                                           AnswerCandidate(so.questions[so.qi],
                                                           resp.items[1].body))
                               ELSE so.results)
    /\ UNCHANGED << input, route, snippets, unitIdx, allMatches, searches >>

\* Lines 12-15 of searchWeb: without a key, [] is returned and no request made.
WebNotConfigured ==
    /\ pc = "web"
    /\ options.searchWeb
    /\ ~keys.SERPAPI_KEY
    /\ Continue("web", FALSE, FALSE, Returned(<< >>), Guard(Returned(<< >>)), "score")
    /\ searches' = searches + 1
    /\ UNCHANGED << input, route, snippets, unitIdx, allMatches, so, events >>

\* Line 22: the request of searchWeb.
CallWeb ==
    /\ pc = "web"
    /\ options.searchWeb
    /\ keys.SERPAPI_KEY
    /\ call = NoCall
    /\ call' = Pending("web")
    /\ searches' = searches + 1
    /\ UNCHANGED << input, route, file, matches, pc, so, events, lastCall, found, failed >>

WebResponds ==
    /\ pc = "web"
    /\ call = Pending("web")
    /\ \E resp \in Responses([k \in 1..MaxEvents |-> WebItem(k)], TRUE) :
          /\ Spend(resp)
          /\ Continue("web", keys.SERPAPI_KEY, resp.failed,
                      searchWeb(resp), SearchWeb(resp), "score")
    /\ UNCHANGED << input, route, snippets, unitIdx, allMatches, so, searches >>

\* A request that is never answered: no line of the code bounds the time of a
\* request (no timeout is passed to axios or to Octokit, and nothing races the
\* awaits of analyzeFile), so the await stays where it is.
NeverAnswered ==
    /\ call.status = "pending"
    /\ call' = [call EXCEPT !.status = "unanswered"]
    /\ UNCHANGED << input, route, file, matches, pc, so, events, history >>

\* Lines 412-425: the matches of the unit are scored, and the loop goes on
\* with the next unit (line 368: its matches are empty).
ScoreUnit ==
    /\ pc = "score"
    /\ allMatches' = allMatches
           \o ScoreMatches(matches, snippets[unitIdx], options.similarityThreshold)
    /\ unitIdx' = unitIdx + 1
    /\ matches' = << >>
    /\ pc' = UnitOrSort(options, unitIdx + 1, Len(snippets))
    /\ UNCHANGED << input, route, result, snippets, network, history >>

\* Lines 427-435 and 442: after the last unit.
FinishFile ==
    /\ pc = "sort"
    /\ LET sorted == SortBySimilarity(allMatches)
       IN  result' = [result EXCEPT !.matches = sorted,
                                    !.plagiarismScore = PlagiarismScore(sorted)]
    /\ pc' = "fileDone"
    /\ UNCHANGED << input, route, snippets, unitIdx, allMatches, matches, network,
                    history >>

HighRiskThreshold == Rat(7, 10)

\* A test that also takes the score equal to the threshold.
IsHighRiskInclusive(score) == RatLeq(HighRiskThreshold, score)

\* Line 258: fileResult.plagiarismScore > 0.7.
IsHighRisk(score) == RatLess(HighRiskThreshold, score)

\* The result put before the results of the earlier files.
UnshiftResult(files, fileResult) == << fileResult >> \o files

\* Line 255: results.files.push(fileResult).
PushResult(files, fileResult) == Append(files, fileResult)

\* Lines 255-266: the result of the file joins results.
CollectFile ==
    /\ pc = "fileDone"
    /\ results' =
          [files |-> PushResult(results.files, result),
           highRiskFiles |->
               IF IsHighRisk(result.plagiarismScore)
               THEN Append(results.highRiskFiles,
                           [filename |-> codeFiles[fileIdx].filename,
                            score |-> result.plagiarismScore])
               ELSE results.highRiskFiles,
           totalMatches |-> results.totalMatches + Len(result.matches)]
    /\ fileIdx' = fileIdx + 1
    /\ runs' = Append(runs, [content |-> codeFiles[fileIdx].content,
                             found |-> found,
                             error |-> result.error,
                             matches |-> result.matches])
    /\ pc' = "file"
    /\ UNCHANGED << input, response, file, matches, network, history >>

\* Array.prototype.reduce((sum, x) => sum + x, 0).
RECURSIVE SumRat(_)
SumRat(xs) == IF Len(xs) = 0 THEN Zero ELSE RatAdd(xs[1], SumRat(Tail(xs)))

\* The total divided by the number of the scores that are not 0.
AverageOfNonZero(xs) ==
    RatMul(SumRat(xs), Rat(1, Len(SelectSeq(xs, LAMBDA x : x # Zero))))

\* Lines 270-274: the total of the scores divided by results.files.length.
Average(xs) == RatMul(SumRat(xs), Rat(1, Len(xs)))

\* Lines 269-284: the summary, the sources and the answer.
Finish ==
    /\ pc = "file"
    /\ fileIdx > Len(codeFiles)
    /\ LET plagiarismScores ==
               [i \in DOMAIN results.files |-> results.files[i].plagiarismScore]
           aiScores ==
               [i \in DOMAIN results.files |-> results.files[i].aiGeneratedScore]
       IN  response' =
              Respond(200, results.files,
                      [plagiarismScore |-> Average(plagiarismScores),
                       aiGeneratedScore |-> Average(aiScores),
                       totalMatches |-> results.totalMatches,
                       highRiskFiles |-> results.highRiskFiles],
                      aggregateSources(results.files))
    /\ pc' = "responded"
    /\ UNCHANGED << input, results, fileIdx, file, matches, network, history,
                    runs >>

Next ==
    \/ ReceiveRequest
    \/ StartFile
    \/ CallGitHub
    \/ GitHubResponds
    \/ CallStackOverflow
    \/ QuestionsRespond
    \/ AnswerResponds
    \/ WebNotConfigured
    \/ CallWeb
    \/ WebResponds
    \/ NeverAnswered
    \/ ScoreUnit
    \/ FinishFile
    \/ CollectFile
    \/ Finish

Spec == Init /\ [][Next]_vars

(***************************************************************************)
(* The route alone: analyzeFile is taken as a whole and may return any     *)
(* result, so that the summary and the sources are computed from file      *)
(* results of every shape, whatever analyzeFile can produce.               *)
(***************************************************************************)
MaxMatches == 2

\* A match as analyzeFile returns it (lines 416-420), of the given source,
\* link and similarity.
AnyMatch(source, link, similarity) ==
    [title |-> << "t" >>, link |-> link, snippet |-> TextF, source |-> source,
     url |-> Undefined, unit |-> 1, rank |-> 1, returned |-> TextF,
     similarity |-> similarity, risk |-> getRiskLevel(similarity)]

\* Two matches that cite the same link through different sources: one scores
\* exactly the high-risk threshold, the other 0.95.
MatchPool ==
    { AnyMatch("stackoverflow", << "example.org", 1 >>, Rat(7, 10)),
      AnyMatch("web", << "example.org", 1 >>, Rat(19, 20)) }

MatchLists == UNION { [1..n -> MatchPool] : n \in 0..MaxMatches }

\* The results analyzeFile may return for the file f (line 442).
AnyResults(f) ==
    { [filename |-> f.filename, plagiarismScore |-> PlagiarismScore(ms),
       aiGeneratedScore |-> ai, matches |-> ms,
       aiAnalysis |-> [NullAnalysis EXCEPT !.present = TRUE, !.aiProbability = ai],
       error |-> ""] :
         ms \in MatchLists, ai \in { Zero, Rat(1, 2) } }

\* The submissions of the route alone: files of different names.
RouteSubmissions ==
    { SubSeq(<< FileAdd, FileF, FileFG, FileNumber >>, 1, n) : n \in 1..MaxFiles }

RouteInit ==
    /\ codeFiles \in RouteSubmissions
    /\ options = Options(TRUE, TRUE, TRUE, DefaultThreshold)
    /\ keys = Keys(TRUE)
    /\ pc = "request"
    /\ response = NoResponse
    /\ results = NoResults
    /\ fileIdx = 0
    /\ result = NoResult
    /\ snippets = << >>
    /\ unitIdx = 0
    /\ matches = << >>
    /\ allMatches = << >>
    /\ call = NoCall
    /\ so = NoSO
    /\ events = 0
    /\ lastCall = NoLastCall
    /\ searches = 0
    /\ found = << >>
    /\ failed = {}
    /\ runs = << >>

\* Line 254: const fileResult = await analyzeFile(file, options).
AnalyzeFile ==
    /\ pc = "file"
    /\ fileIdx <= Len(codeFiles)
    /\ result' \in AnyResults(codeFiles[fileIdx])
    /\ pc' = "fileDone"
    /\ UNCHANGED << input, route, snippets, unitIdx, allMatches, matches, network,
                    history >>

RouteNext ==
    \/ ReceiveRequest
    \/ AnalyzeFile
    \/ CollectFile
    \/ Finish

RouteSpec == RouteInit /\ [][RouteNext]_vars

(***************************************************************************)
(* The route alone, with files whose matches cite two links of one kind    *)
(***************************************************************************)

MaxCited == 2

\* Matches of the web search: two of one link with different scores, one of
\* another link.
CitedPool ==
    { AnyMatch("web", << "example.org", 1 >>, Rat(19, 20)),
      AnyMatch("web", << "example.org", 1 >>, Rat(7, 10)),
      AnyMatch("web", << "example.org", 2 >>, Rat(4, 5)) }

\* Line 254, with a result whose matches are sorted as line 428 leaves them.
AnalyzeCited ==
    /\ pc = "file"
    /\ fileIdx <= Len(codeFiles)
    /\ \E n \in 0..MaxCited : \E ms \in [1..n -> CitedPool] :
          result' = [NewResult(codeFiles[fileIdx]) EXCEPT
                       !.matches = SortBySimilarity(ms),
                       !.plagiarismScore = PlagiarismScore(SortBySimilarity(ms))]
    /\ pc' = "fileDone"
    /\ UNCHANGED << input, route, snippets, unitIdx, allMatches, matches, network,
                    history >>

AggregateNext ==
    \/ ReceiveRequest
    \/ AnalyzeCited
    \/ CollectFile
    \/ Finish

AggregateSpec == RouteInit /\ [][AggregateNext]_vars

(***************************************************************************)
(* The authorship check: requests that ask for it and for no search        *)
(***************************************************************************)

DetectOnly ==
    [Options(FALSE, FALSE, FALSE, DefaultThreshold) EXCEPT !.detectAI = TRUE]

DetectSubmissions ==
    UNION { [1..n -> { FileF, FileNumber }] : n \in 0..MaxFiles }

DetectInit ==
    /\ codeFiles \in DetectSubmissions
    /\ options = DetectOnly
    /\ keys \in { Keys(TRUE), Keys(FALSE) }
    /\ pc = "request"
    /\ response = NoResponse
    /\ results = NoResults
    /\ fileIdx = 0
    /\ result = NoResult
    /\ snippets = << >>
    /\ unitIdx = 0
    /\ matches = << >>
    /\ allMatches = << >>
    /\ call = NoCall
    /\ so = NoSO
    /\ events = 0
    /\ lastCall = NoLastCall
    /\ searches = 0
    /\ found = << >>
    /\ failed = {}
    /\ runs = << >>

DetectNext ==
    \/ ReceiveRequest
    \/ StartFile
    \/ DetectAI
    \/ ScoreUnit
    \/ FinishFile
    \/ CollectFile
    \/ Finish

DetectSpec == DetectInit /\ [][DetectNext]_vars

(***************************************************************************)
(* One query of searchStackOverflow with many questions in the response    *)
(***************************************************************************)

MaxQuestions == 11

\* The question-search responses of up to MaxQuestions questions, all with an
\* answer or all but the first.
ManyQuestions ==
    { Items([k \in 1..n |-> Question(k, IF k <= unanswered THEN 0 ELSE 1)]) :
        n \in 0..MaxQuestions, unanswered \in 0..1 }

ManyQuestionsRespond ==
    /\ call = Pending("questions")
    /\ QuestionsRespondWith(ManyQuestions)

QueryInit ==
    /\ codeFiles = << FileF >>
    /\ options = Options(FALSE, TRUE, FALSE, DefaultThreshold)
    /\ keys \in { Keys(TRUE), Keys(FALSE) }
    /\ pc = "request"
    /\ response = NoResponse
    /\ results = NoResults
    /\ fileIdx = 0
    /\ result = NoResult
    /\ snippets = << >>
    /\ unitIdx = 0
    /\ matches = << >>
    /\ allMatches = << >>
    /\ call = NoCall
    /\ so = NoSO
    /\ events = 0
    /\ lastCall = NoLastCall
    /\ searches = 0
    /\ found = << >>
    /\ failed = {}
    /\ runs = << >>

QueryNext ==
    \/ ReceiveRequest
    \/ StartFile
    \/ CallStackOverflow
    \/ ManyQuestionsRespond
    \/ AnswerResponds
    \/ ScoreUnit
    \/ FinishFile
    \/ CollectFile
    \/ Finish

QuerySpec == QueryInit /\ [][QueryNext]_vars

(***************************************************************************)
(* extractSearchSnippets alone, on texts of many units                     *)
(***************************************************************************)

MaxFunctions == 11
MaxClasses == 1
MaxChunks == 11

RECURSIVE Repeat(_, _)
Repeat(piece, n) == IF n = 0 THEN << >> ELSE piece \o Repeat(piece, n - 1)

\* A class, closed by an empty line.
ClassPiece ==
    << "c", "l", "a", "s", "s", " ", "A", " ", "{", "}", "\n", "\n" >>

\* A line of more than MinLineLength characters that opens no function and no
\* class.
LinePiece ==
    << "t", "o", "t", "a", "l", " ", "=", " ", "a", "l", "p", "h", "a", " ", "+",
       " ", "b", "e", "t", "a", ";", "\n" >>

\* A line of exactly MinLineLength characters, indented.
ExactPiece ==
    << " ", " ", "t", "o", "t", "a", "l", " ", "=", " ", "a", "l", "p", "h", "a",
       " ", "+", " ", "b", "e", "t", "a", "\n" >>

\* A comment line of more than MinLineLength characters.
CommentPiece ==
    << "/", "/", " ", "t", "o", "t", "a", "l", " ", "=", " ", "a", "l", "p", "h",
       "a", " ", "+", " ", "b", "e", "t", "a", ";", "\n" >>

\* Texts of functions, then classes, then whole chunks of plain lines; texts
\* of whitespace; and texts of lines of exactly MinLineLength characters, of
\* comment lines and of lines of both kinds among longer lines.
ExtractTexts ==
    { Repeat(TextF \o NL, a) \o Repeat(ClassPiece, b)
          \o Repeat(LinePiece, ChunkLines * c) :
        a \in 0..MaxFunctions, b \in 0..MaxClasses, c \in 0..MaxChunks }
    \cup { SP, NL, << " ", "\n", "\t", "\n", " " >> }
    \cup { Repeat(ExactPiece, a) \o Repeat(CommentPiece, b) \o Repeat(LinePiece, c) :
              a \in 0..3, b \in 0..1, c \in 0..3 }

ExtractInit ==
    /\ codeFiles \in { << [filename |-> "t.js", content |-> t] >> : t \in ExtractTexts }
    /\ options = Options(FALSE, FALSE, FALSE, DefaultThreshold)
    /\ keys = Keys(FALSE)
    /\ pc = "file"
    /\ response = NoResponse
    /\ results = NoResults
    /\ fileIdx = 1
    /\ result = NoResult
    /\ snippets = << >>
    /\ unitIdx = 0
    /\ matches = << >>
    /\ allMatches = << >>
    /\ call = NoCall
    /\ so = NoSO
    /\ events = 0
    /\ lastCall = NoLastCall
    /\ searches = 0
    /\ found = << >>
    /\ failed = {}
    /\ runs = << >>

\* Line 364: const snippets = searchService.extractSearchSnippets(file.content).
ExtractNext == StartFile

ExtractSpec == ExtractInit /\ [][ExtractNext]_vars

(***************************************************************************)
(* SearchService.analyzeCodeSimilarity  (searchService.js 129-151): the    *)
(* scores of a text against the snippets of a list of results.  snippets   *)
(* holds sourceCode, matches holds searchResults and allMatches holds the  *)
(* list returned.                                                          *)
(***************************************************************************)

\* Line 136: if (similarity > 0.3).
MinSimilarity == Rat(3, 10)

\* Short texts of letters, of digits, of whitespace, of underscores and of
\* other characters; and the empty text.
SimilarityTexts ==
    { << >>,
      << "a", "b" >>,
      << "A", " ", " ", "b" >>,
      << "a", "+", "b" >>,
      << "a", "_", "b" >>,
      << "a", "b", "1" >>,
      << "A", "\n", "B", ";", "1" >>,
      << "b", "a" >> }

\* Lines 132-146: the loop over searchResults.
RECURSIVE Similarities(_, _)
Similarities(sourceCode, searchResults) ==
    IF Len(searchResults) = 0 THEN << >>
    ELSE LET r          == searchResults[1]
             similarity == calculateSimilarity(sourceCode, r.snippet)
             rest       == Similarities(sourceCode, Tail(searchResults))
         IN  IF Truthy(r.snippet) /\ RatLess(MinSimilarity, similarity)
             THEN << [source |-> r.source, title |-> r.title, link |-> r.link,
                      similarity |-> similarity, snippet |-> r.snippet] >> \o rest
             ELSE rest

analyzeCodeSimilarity ==
    /\ pc = "similarity"
    /\ allMatches' = SortBySimilarity(Similarities(snippets[1], matches))
    /\ pc' = "compared"
    /\ UNCHANGED << input, route, result, snippets, unitIdx, matches, network,
                    history >>

SimilarityInit ==
    /\ codeFiles = << >>
    /\ options = Options(FALSE, FALSE, FALSE, DefaultThreshold)
    /\ keys = Keys(FALSE)
    /\ pc = "similarity"
    /\ response = NoResponse
    /\ results = NoResults
    /\ fileIdx = 1
    /\ result = NoResult
    /\ snippets \in { << t >> : t \in SimilarityTexts }
    /\ unitIdx = 0
    /\ \E n \in 1..2 :
           matches \in { [k \in 1..n |->
                            [source |-> "web", title |-> Undefined, link |-> k,
                             snippet |-> t[k]]] :
                         t \in [1..n -> SimilarityTexts \cup { Undefined }] }
    /\ allMatches = << >>
    /\ call = NoCall
    /\ so = NoSO
    /\ events = 0
    /\ lastCall = NoLastCall
    /\ searches = 0
    /\ found = << >>
    /\ failed = {}
    /\ runs = << >>

SimilarityNext == analyzeCodeSimilarity

SimilaritySpec == SimilarityInit /\ [][SimilarityNext]_vars

(***************************************************************************)
(* Properties of the specification, checked against the model.             *)
(***************************************************************************)

\* C1: for every match, similarity is the score of the unit's text against
\* the snippet text that the source returned for the candidate.
C1_SimilarityOfReturnedSnippet ==
    pc = "fileDone" =>
        \A i \in DOMAIN result.matches :
            LET m == result.matches[i]
            IN  IsString(m.returned) =>
                    m.similarity = calculateSimilarity(snippets[m.unit], m.returned)

\* C2: a file whose analysis fails, a file whose content is absent or is not
\* text included, does not abort the submission: the answer is the report,
\* with a result for every file and the failure recorded on the failed one.
C2_FileFailureDoesNotAbort ==
    (pc = "responded" /\ Len(codeFiles) > 0) =>
        /\ response.status = 200
        /\ Len(response.files) = Len(codeFiles)
        /\ \A i \in DOMAIN codeFiles :
              ~IsString(codeFiles[i].content) => response.files[i].error # ""

\* C3: the analysis of a submission always goes on to its answer, also when
\* a request to a source is never answered: while the analysis is at the
\* search of a source, whatever became of its request, it has a step to take.
\* (Every run of the model is finite, so an analysis that always has a step
\* to take before its answer reaches the answer.)
C3_AnalysisAlwaysCompletes ==
    pc \in { "github", "stackoverflow", "web" } => ENABLED Next

\* C4: for the file  function add(a,b){return a+b;}  with only the search of
\* the repository host enabled, default threshold, and the host returning
\* exactly one candidate for every unit, the result has exactly one match,
\* of risk critical or high, and plagiarismScore is that match's similarity.
C4_AddScenario ==
    ( /\ pc = "fileDone"
      /\ codeFiles[fileIdx].content = TextAdd
      /\ options = Options(TRUE, FALSE, FALSE, DefaultThreshold)
      /\ \A u \in DOMAIN snippets :
            Cardinality({ k \in DOMAIN found :
                             found[k].unit = u /\ found[k].source = "github" }) = 1 )
    => /\ Len(result.matches) = 1
       /\ result.matches[1].risk \in { "critical", "high" }
       /\ result.plagiarismScore = result.matches[1].similarity

\* C5: when the call to a source fails for a unit, the file's result carries
\* no error, its matches are exactly what the candidates returned by the
\* calls that did not fail give, and the failed call contributes none.
C5_SourceFailureIsolated ==
    (pc = "fileDone" /\ failed # {}) =>
        LET expected ==
                UNION { Range(ScoreMatches(<< found[k] >>, snippets[found[k].unit],
                                           options.similarityThreshold)) :
                           k \in DOMAIN found }
        IN  /\ result.error = ""
            /\ Range(result.matches) = expected
            /\ Len(result.matches) = Cardinality(expected)
            /\ \A i \in DOMAIN result.matches :
                  << result.matches[i].unit, result.matches[i].source >> \notin failed

\* A source failed for a unit, and the file has a match of another source
\* for the same unit.
C5_Witness ==
    /\ pc = "fileDone"
    /\ \E p \in failed : \E i \in DOMAIN result.matches :
          result.matches[i].unit = p[1] /\ result.matches[i].source # p[2]

\* C6: a search operation never throws to its caller, and on a failure of a
\* request, at any point of the operation, it returns the empty sequence.
C6_SearchReturnsEmptyOnFailure ==
    /\ ~lastCall.threw
    /\ lastCall.failed => lastCall.value = << >>

\* A request of the question-and-answer search failed and the operation has
\* returned.
C6_Witness ==
    /\ lastCall.source = "stackoverflow"
    /\ lastCall.failed
    /\ pc # "stackoverflow"

\* C7: a search operation whose credentials are not configured returns the
\* empty sequence, whatever the service would answer.
C7_UnconfiguredReturnsEmpty ==
    (lastCall.source # "none" /\ ~lastCall.configured) => lastCall.value = << >>

\* C8: a file whose content is text and gives no unit has plagiarismScore 0,
\* no match and no error, and no search operation is called for it.
C8_NoUnits ==
    ( /\ pc = "fileDone"
      /\ IsString(codeFiles[fileIdx].content)
      /\ Len(snippets) = 0 )
    => /\ result.plagiarismScore = Zero
       /\ result.matches = << >>
       /\ result.error = ""
       /\ searches = 0

\* The one-line file has been analysed with a search enabled.
C8_Witness ==
    /\ pc = "fileDone"
    /\ codeFiles[fileIdx].content = TextAdd
    /\ options.searchGitHub
    /\ Len(snippets) = 0

\* C9: plagiarismScore is 0.7 times the greatest similarity of the file's
\* matches plus 0.3 times their mean, and 0 when there is no match.
C9_PlagiarismScore ==
    pc = "fileDone" =>
        LET ms   == result.matches
            sims == [i \in DOMAIN ms |-> ms[i].similarity]
            max  == CHOOSE x \in Range(sims) : \A y \in Range(sims) : RatLeq(y, x)
            mean == RatMul(SumRat(sims), Rat(1, Len(ms)))
        IN  result.plagiarismScore =
                IF Len(ms) = 0 THEN Zero
                ELSE RatAdd(RatMul(Rat(7, 10), max), RatMul(Rat(3, 10), mean))

\* A file with two matches or more.
C9_Witness == pc = "fileDone" /\ Len(result.matches) >= 2

\* C10: the matches of a file are in non-increasing order of similarity, and
\* matches of equal similarity are in the order they were found: by unit,
\* within a unit by source (repository host, question-and-answer, web), and
\* within a source in the order the source returned them.
C10_MatchesSorted ==
    pc = "fileDone" =>
        \A i, j \in DOMAIN result.matches :
            i < j =>
                LET a  == result.matches[i]
                    b  == result.matches[j]
                    at(m) == CASE m.source = "github"        -> 1
                               [] m.source = "stackoverflow" -> 2
                               [] m.source = "web"           -> 3
                IN  \/ RatLess(b.similarity, a.similarity)
                    \/ /\ a.similarity = b.similarity
                       /\ \/ a.unit < b.unit
                          \/ a.unit = b.unit /\ at(a) < at(b)
                          \/ a.unit = b.unit /\ at(a) = at(b) /\ a.rank < b.rank

\* Two matches of different sources have the same similarity.
C10_Witness ==
    /\ pc = "fileDone"
    /\ \E i, j \in DOMAIN result.matches :
          /\ i < j
          /\ result.matches[i].source # result.matches[j].source
          /\ result.matches[i].similarity = result.matches[j].similarity

\* C11: in the answer, summary.highRiskFiles holds one entry for each file
\* whose plagiarismScore is strictly greater than 0.7 and for no other file
\* (a file at exactly 0.7 is absent), in the order of the files, each entry
\* with the file's filename and score.
C11_HighRiskFiles ==
    (pc = "responded" /\ response.status = 200) =>
        LET fs   == response.files
            hr   == response.summary.highRiskFiles
            high == { i \in DOMAIN fs : RatLess(Rat(7, 10), fs[i].plagiarismScore) }
        IN  /\ Len(fs) = Len(codeFiles)
            /\ Len(hr) = Cardinality(high)
            /\ \E at \in [DOMAIN hr -> high] :
                  /\ \A k, l \in DOMAIN hr : k < l => at[k] < at[l]
                  /\ \A k \in DOMAIN hr :
                        hr[k] = [filename |-> codeFiles[at[k]].filename,
                                 score |-> fs[at[k]].plagiarismScore]

\* The answer for two files: the first scores exactly 0.7 and is absent, the
\* second scores more and is the only entry.
C11_Witness ==
    /\ pc = "responded"
    /\ Len(response.files) = 2
    /\ response.files[1].plagiarismScore = Rat(7, 10)
    /\ RatLess(Rat(7, 10), response.files[2].plagiarismScore)
    /\ Len(response.summary.highRiskFiles) = 1

\* C12: for a submission of one file or more, summary.plagiarismScore is the
\* mean of the files' plagiarismScore and summary.aiGeneratedScore the mean
\* of their aiGeneratedScore, a file without match counting as 0; two files
\* of scores 0.95 and 0 give 0.475, and highRiskFiles holds the first only.
C12_SummaryMeans ==
    (pc = "responded" /\ response.status = 200) =>
        LET fs == response.files
            n  == Rat(Len(fs), 1)
            sm == response.summary
        IN  /\ Len(fs) > 0
            /\ RatMul(sm.plagiarismScore, n)
                  = SumRat([i \in DOMAIN fs |-> fs[i].plagiarismScore])
            /\ RatMul(sm.aiGeneratedScore, n)
                  = SumRat([i \in DOMAIN fs |-> fs[i].aiGeneratedScore])
            /\ ( /\ Len(fs) = 2
                 /\ fs[1].plagiarismScore = Rat(19, 20)
                 /\ fs[2].plagiarismScore = Zero )
               => /\ sm.plagiarismScore = Rat(19, 40)
                  /\ Len(sm.highRiskFiles) = 1
                  /\ sm.highRiskFiles[1].filename = codeFiles[1].filename

\* The answer for two files, the first with one match of similarity 0.95 and
\* the second with none.
C12_Witness ==
    /\ pc = "responded"
    /\ Len(response.files) = 2
    /\ Len(response.files[1].matches) = 1
    /\ response.files[1].plagiarismScore = Rat(19, 20)
    /\ Len(response.files[2].matches) = 0
    /\ response.files[2].aiGeneratedScore # Zero

\* C13: the sources of the answer hold at most one entry for a source kind
\* and link, every kind and link cited by a match has its entry, and when two
\* files cite the same kind and link, with one match each, the entry lists
\* two referencing files.
C13_OneAggregatePerKey ==
    (pc = "responded" /\ response.status = 200) =>
        LET fs    == response.files
            cites(i, kind, link) ==
                { k \in DOMAIN fs[i].matches :
                     fs[i].matches[k].source = kind /\ fs[i].matches[k].link = link }
        IN  \A kind \in SourceKinds :
               LET aggs == response.sources[kind]
               IN  /\ \A a, b \in DOMAIN aggs :
                         (aggs[a].source = aggs[b].source /\ aggs[a].link = aggs[b].link)
                             => a = b
                   /\ \A a \in DOMAIN aggs : aggs[a].source = kind
                   /\ \A i \in DOMAIN fs : \A k \in DOMAIN fs[i].matches :
                         fs[i].matches[k].source = kind =>
                             \E a \in DOMAIN aggs : aggs[a].link = fs[i].matches[k].link
                   /\ \A a \in DOMAIN aggs :
                         LET citing == { i \in DOMAIN fs : cites(i, kind, aggs[a].link) # {} }
                         IN  ( /\ Cardinality(citing) = 2
                               /\ \A i \in citing :
                                     Cardinality(cites(i, kind, aggs[a].link)) = 1 )
                             => Len(aggs[a].files) = 2

\* Two files cite the same link through the web search, with one match each,
\* and the sources hold one web entry.
C13_Witness ==
    /\ pc = "responded"
    /\ Len(response.files) = 2
    /\ \A i \in 1..2 :
          /\ Len(response.files[i].matches) = 1
          /\ response.files[i].matches[1].source = "web"
    /\ Len(response.sources["web"]) = 1
    /\ Len(response.sources["web"][1].files) = 2

\* C14: in every entry of the sources, the referencing files hold each
\* filename at most once and are exactly the names of the files that have a
\* match of the entry's kind and link, also when one file has several such
\* matches (the files of the submission having different names).
C14_ReferencingFilesOnce ==
    ( /\ pc = "responded"
      /\ response.status = 200
      /\ \A i, j \in DOMAIN codeFiles :
            codeFiles[i].filename = codeFiles[j].filename => i = j )
    => \A kind \in SourceKinds : \A a \in DOMAIN response.sources[kind] :
          LET agg  == response.sources[kind][a]
              fs   == response.files
          IN  /\ \A k, l \in DOMAIN agg.files : agg.files[k] = agg.files[l] => k = l
              /\ Range(agg.files) =
                    { fs[i].filename : i \in
                        { i \in DOMAIN fs : \E k \in DOMAIN fs[i].matches :
                             /\ fs[i].matches[k].source = kind
                             /\ fs[i].matches[k].link = agg.link } }

\* C15: whatever the generative model answers, every score of the answer
\* lies in [0, 1]: the similarity of each match, the plagiarismScore and the
\* aiGeneratedScore of each file, the confidence of its authorship analysis,
\* and the two scores of the summary.
C15_ScoresInUnitInterval ==
    (pc = "responded" /\ response.status = 200) =>
        LET inUnit(x) == x.d # 0 /\ RatLeq(Zero, x) /\ RatLeq(x, One)
        IN  /\ \A i \in DOMAIN response.files :
                  LET r == response.files[i]
                  IN  /\ inUnit(r.plagiarismScore)
                      /\ inUnit(r.aiGeneratedScore)
                      /\ inUnit(r.aiAnalysis.confidence)
                      /\ \A k \in DOMAIN r.matches : inUnit(r.matches[k].similarity)
            /\ Len(response.files) > 0 =>
                  /\ inUnit(response.summary.plagiarismScore)
                  /\ inUnit(response.summary.aiGeneratedScore)

\* C16: two analyses of the same content in one process, under the same
\* options and with the sources returning the same candidates, give the same
\* sequence of matches, whatever was analysed in between or before.
C16_Deterministic ==
    \A i, j \in DOMAIN runs :
        ( /\ runs[i].content = runs[j].content
          /\ runs[i].found = runs[j].found
          /\ runs[i].error = runs[j].error )
        => runs[i].matches = runs[j].matches

\* The same content was analysed twice, the second time after another
\* analysis had gathered matches, and the sources returned a candidate that
\* became a match.
C16_Witness ==
    /\ Len(runs) = 2
    /\ runs[1].content = runs[2].content
    /\ runs[1].found = runs[2].found
    /\ Len(runs[2].matches) > 0

\* C17: a submission that is empty or holds a file without content is
\* rejected before any work: no request to a source is made, no file is
\* analysed, and the answer is a rejection that carries no result.
C17_InvalidRejectedBeforeWork ==
    LET invalid == \/ Len(codeFiles) = 0
                   \/ \E i \in DOMAIN codeFiles : codeFiles[i].content = Undefined
    IN  invalid =>
            /\ call = NoCall
            /\ lastCall = NoLastCall
            /\ Len(runs) = 0
            /\ pc = "responded" =>
                  (response.status # 200 /\ Len(response.files) = 0)

\* C18: extractSearchSnippets returns at most 10 units, the first 10 in the
\* order of extraction (functions, then classes; or the chunks of lines);
\* it returns no unit and no error for a text of whitespace; and it returns
\* chunks of lines only when it found no function and no class.
C18_ExtractAtMostTen ==
    pc # "file" =>
        LET code       == codeFiles[1].content
            structural == ExecFunctions(code, 1) \o ExecClasses(code, 1)
            chunks     == LineChunks(SelectSeq(SplitLines(code), IsSignificantLine))
            units      == IF Len(structural) > 0 THEN structural ELSE chunks
        IN  /\ Len(snippets) <= 10
            /\ Len(snippets) = (IF Len(units) < 10 THEN Len(units) ELSE 10)
            /\ \A k \in DOMAIN snippets : snippets[k] = units[k]
            /\ (\A k \in DOMAIN code : IsSpace(code[k]))
                  => (snippets = << >> /\ result.error = "")
            /\ Len(structural) > 0
                  => \A k \in DOMAIN snippets :
                        /\ snippets[k] \in Range(structural)
                        /\ snippets[k] \notin Range(chunks)

\* A text of more than 10 functions and of a class gave 10 units.
C18_Witness ==
    /\ pc # "file"
    /\ Len(snippets) = 10
    /\ Len(ExecFunctions(codeFiles[1].content, 1)) > 10
    /\ Len(ExecClasses(codeFiles[1].content, 1)) > 0

\* C19: a candidate that a source returned is a match of the file exactly
\* when it has a non-empty snippet text of its own and the similarity of that
\* text to the unit is strictly greater than similarityThreshold.
C19_MatchIffOwnSnippetAboveThreshold ==
    (pc = "fileDone" /\ result.error = "") =>
        \A k \in DOMAIN found :
            LET c       == found[k]
                isMatch == \E i \in DOMAIN result.matches :
                              /\ result.matches[i].unit = c.unit
                              /\ result.matches[i].source = c.source
                              /\ result.matches[i].rank = c.rank
                own     == IsString(c.returned) /\ Len(c.returned) > 0
            IN  isMatch <=>
                    ( /\ own
                      /\ RatLess(options.similarityThreshold,
                                 calculateSimilarity(snippets[c.unit], c.returned)) )

\* C20: the searches of a unit are dispatched together: while the request of
\* the code search is in flight and the Q&A search is enabled, the request of
\* the Q&A search can be issued, without waiting for the code search to end.
C20_SourcesDispatchedConcurrently ==
    (call = Pending("github") /\ options.searchStackOverflow)
        => ENABLED CallStackOverflow

\* C21: the files of a submission are analysed one at a time in the order of
\* the input: whenever the analysis of a file is under way (a request of it in
\* flight included), the results of all the files before it, and of no other
\* file, are in results.files, which lists the results in the order of the
\* input.
C21_FilesOneAtATimeInOrder ==
    /\ \A i \in DOMAIN results.files :
          /\ i <= Len(codeFiles)
          /\ results.files[i].filename = codeFiles[i].filename
          /\ runs[i].content = codeFiles[i].content
    /\ (pc \in { "detect", "github", "stackoverflow", "web", "score", "sort",
                 "fileDone" } \/ call # NoCall)
          => /\ fileIdx \in DOMAIN codeFiles
             /\ Len(results.files) = fileIdx - 1
             /\ result.filename = codeFiles[fileIdx].filename
    /\ (pc = "responded" /\ response.status = 200)
          => /\ Len(response.files) = Len(codeFiles)
             /\ \A i \in DOMAIN codeFiles :
                   response.files[i].filename = codeFiles[i].filename

\* A request of the second file, of another name than the first, is in
\* flight and the result of the first file is in results.files.
C21_Witness ==
    /\ call # NoCall
    /\ fileIdx = 2
    /\ Len(results.files) = 1
    /\ codeFiles[1].filename # codeFiles[2].filename
    /\ results.files[1].filename = codeFiles[1].filename

\* C22: for one query, searchStackOverflow requests the answers of at most
\* 10 questions, whatever the number of questions of the response, and only
\* of questions that have at least one answer.
C22_AtMostTenFollowUps ==
    /\ so.fetches <= 10
    /\ call = Pending("answers") => so.questions[so.qi].answer_count > 0

\* C23: an entry of the sources stands for one external origin: for every
\* source kind, the answer holds as many entries as the matches of that kind
\* cite different origins, the origin of a match being its link and, for a
\* match of the code search, the URL of the result.
C23_OneOriginPerAggregate ==
    (pc = "responded" /\ response.status = 200) =>
        \A kind \in SourceKinds :
            LET fs    == response.files
                pairs == UNION { { << i, k >> : k \in DOMAIN fs[i].matches } :
                                   i \in DOMAIN fs }
                cited == { p \in pairs : fs[p[1]].matches[p[2]].source = kind }
            IN  Len(response.sources[kind]) =
                   Cardinality({ IF kind = "github"
                                 THEN fs[p[1]].matches[p[2]].url
                                 ELSE fs[p[1]].matches[p[2]].link : p \in cited })

\* C24: every entry of the sources has for maxSimilarity the greatest
\* similarity, and for totalMatches the number, of the matches of its kind
\* and link in all the files; the totalMatches of the entries add up to the
\* totalMatches of the summary; and the entries of a kind are in the order
\* of non-increasing maxSimilarity.
C24_AggregateTotals ==
    (pc = "responded" /\ response.status = 200) =>
        LET fs    == response.files
            pairs == UNION { { << i, k >> : k \in DOMAIN fs[i].matches } :
                               i \in DOMAIN fs }
            all   == response.sources["github"] \o response.sources["stackoverflow"]
                        \o response.sources["web"]
        IN  /\ \A kind \in SourceKinds :
                  LET aggs == response.sources[kind]
                  IN  /\ \A a \in DOMAIN aggs :
                            LET of == { p \in pairs :
                                          /\ fs[p[1]].matches[p[2]].source = kind
                                          /\ fs[p[1]].matches[p[2]].link = aggs[a].link }
                            IN  /\ aggs[a].totalMatches = Cardinality(of)
                                /\ \E p \in of :
                                      fs[p[1]].matches[p[2]].similarity
                                          = aggs[a].maxSimilarity
                                /\ \A p \in of :
                                      RatLeq(fs[p[1]].matches[p[2]].similarity,
                                             aggs[a].maxSimilarity)
                      /\ \A a, b \in DOMAIN aggs :
                            a < b => RatLeq(aggs[b].maxSimilarity,
                                            aggs[a].maxSimilarity)
            /\ SumRat([a \in DOMAIN all |-> Rat(all[a].totalMatches, 1)])
                  = Rat(response.summary.totalMatches, 1)

\* The first file cites one link with 0.8, the second cites another link
\* twice, with 0.95 and 0.7: the entry made second comes first.
C24_Witness ==
    /\ pc = "responded"
    /\ Len(response.files) = 2
    /\ Len(response.sources["web"]) = 2
    /\ response.sources["web"][1].totalMatches = 2
    /\ response.sources["web"][1].maxSimilarity = Rat(19, 20)
    /\ response.sources["web"][1].files = << "f.js", "f.js" >>
    /\ response.sources["web"][2].maxSimilarity = Rat(4, 5)
    /\ response.summary.totalMatches = 3

\* C25: a result of a file that carries an error has plagiarismScore 0,
\* aiGeneratedScore 0 and no match, whatever was computed before the failure.
C25_ErrorResultIsZero ==
    /\ (pc = "fileDone" /\ result.error # "")
          => /\ result.plagiarismScore = Zero
             /\ result.aiGeneratedScore = Zero
             /\ result.matches = << >>
    /\ \A i \in DOMAIN response.files :
          response.files[i].error # ""
              => /\ response.files[i].plagiarismScore = Zero
                 /\ response.files[i].aiGeneratedScore = Zero
                 /\ response.files[i].matches = << >>

\* The answer holds a file that failed after its authorship check had run,
\* next to a file whose authorship score is not 0.
C25_Witness ==
    /\ pc = "responded"
    /\ \E i, j \in DOMAIN response.files :
          /\ response.files[i].error # ""
          /\ response.files[i].aiAnalysis.present
          /\ response.files[j].aiGeneratedScore # Zero

\* C26: the authorship check does not fail the file: when the heuristic
\* failed or the request to the generative model failed, the result of the
\* file has aiGeneratedScore 0; and when the request did not ask for the
\* check, the check is not made and aiGeneratedScore is 0.
C26_AuthorshipCheckNotFatal ==
    \A i \in DOMAIN results.files :
        LET r == results.files[i]
        IN  /\ ( /\ r.aiAnalysis.present
                  /\ \/ r.aiAnalysis.error # ""
                     \/ r.aiAnalysis.reasoning = "Analysis failed" )
                  => r.aiGeneratedScore = Zero
            /\ ~options.detectAI
                  => (~r.aiAnalysis.present /\ r.aiGeneratedScore = Zero)

\* C27: the confidence of the authorship analysis does not decrease with a
\* further signal: of two analyses that agree except that the second has
\* one more signal that contributes (patterns found, a model opinion above
\* 0, a statistical score above 0), the second has a confidence greater
\* than or equal to that of the first.
C27_ConfidenceMonotone ==
    \A i, j \in DOMAIN results.files :
        LET a == results.files[i].aiAnalysis
            b == results.files[j].aiAnalysis
            signals(x) ==
                (IF x.totalPatterns > 0 THEN { "pattern" } ELSE {})
                  \cup (IF RatLess(Zero, x.opinion) THEN { "model" } ELSE {})
                  \cup (IF RatLess(Zero, x.statistical) THEN { "statistical" } ELSE {})
        IN  ( /\ a.present /\ a.error = ""
              /\ b.present /\ b.error = ""
              /\ signals(a) \subseteq signals(b)
              /\ Cardinality(signals(b)) = Cardinality(signals(a)) + 1
              /\ "pattern" \in signals(a) => a.totalPatterns = b.totalPatterns
              /\ "model" \in signals(a) => a.opinion = b.opinion
              /\ "statistical" \in signals(a) => a.statistical = b.statistical )
            => RatLeq(a.confidence, b.confidence)

\* C28: in the fallback pass a line is dropped exactly when it is blank, a
\* comment line, or has fewer than 20 characters of content, so that a line
\* of exactly 20 characters is kept; the kept lines are grouped in order
\* into chunks of 5, and a chunk is kept exactly when its joined length
\* exceeds 50 characters.
C28_FallbackKeepsLinesOfTwenty ==
    LET code == codeFiles[1].content
        kept(line) ==
            LET t == trim(line)
            IN  /\ Len(t) >= 20
                /\ ~StartsWithAt(t, 1, << "/", "/" >>)
                /\ ~StartsWithAt(t, 1, << "#" >>)
                /\ ~StartsWithAt(t, 1, << "/", "*" >>)
        chunks == LineChunks(SelectSeq(SplitLines(code), kept))
    IN  ( /\ pc # "file"
          /\ Len(ExecFunctions(code, 1)) = 0
          /\ Len(ExecClasses(code, 1)) = 0 )
        => snippets = SubSeq(chunks, 1, IF Len(chunks) < 10 THEN Len(chunks) ELSE 10)

\* C29: calculateSimilarity replaces every character that is neither a
\* letter, a digit nor whitespace, the underscore included, by a space, so
\* that two texts that differ only in letter case, in whitespace or in such
\* characters score exactly 1: a result whose snippet is such a text is
\* returned with similarity 1.
C29_SimilarityIgnoresCaseSpaceAndSymbols ==
    LET content(text) ==
            SelectSeq([i \in DOMAIN text |-> toLowerCase(text[i])],
                      LAMBDA c : c \in Range(LowerCase) \cup Digits)
    IN  pc = "compared" =>
            \A k \in DOMAIN matches :
                ( /\ Truthy(matches[k].snippet)
                  /\ content(matches[k].snippet) = content(snippets[1]) )
                => \E i \in DOMAIN allMatches :
                       /\ allMatches[i].link = matches[k].link
                       /\ allMatches[i].similarity = One

\* C30: in searchStackOverflow a failure of the request of the answers of
\* one question loses the candidate of that question only: the operation
\* returns the candidates built from the earlier questions of the query.
C30_FailedFollowUpKeepsEarlier ==
    [][ ( /\ call = Pending("answers")
          /\ call' = NoCall
          /\ lastCall'.source = "stackoverflow"
          /\ lastCall'.failed )
        => lastCall'.value = so.results ]_vars

=============================================================================
